---- MODULE Spec2Model ----
(***************************************************************************)
(* Model of create_newsletter_campaign.py: the module-level configuration  *)
(* check, main() and the __main__ guard, together with the three external  *)
(* providers (Dropbox, WIX, MailChimp) the script calls.                   *)
(*                                                                         *)
(* Text is modelled as a sequence of tokens (each token an indivisible     *)
(* piece of text), so that endswith / in / replace / strip are computed    *)
(* on sequences the way Python computes them on characters.  Python's None *)
(* is the one-token text None for text values and the empty tuple for      *)
(* records (a present record r is the tuple <<r>>).                        *)
(*                                                                         *)
(* Every blocking requests.post/put/get is a request placed in inflight,   *)
(* served by the provider (Serve), and consumed by the action that models  *)
(* the code from that call's return up to the next blocking call.          *)
(*                                                                         *)
(* Spec is the script run as a whole.  UnitSpec applies the script's       *)
(* functions on their own, to inputs main() may never give them, and keeps *)
(* input and result in the variable unit.  AllSpec is either of the two.   *)
(***************************************************************************)
EXTENDS Integers, Sequences, FiniteSets, TLC

(***************************************************************************)
(* Bounds                                                                  *)
(***************************************************************************)
MaxEntries == 2
MaxParas == 2

(***************************************************************************)
(* Text helpers                                                            *)
(***************************************************************************)
None == <<"<None>">>

Falsy(s) == s = None \/ s = <<>>

RECURSIVE Replace(_, _, _)
Replace(s, old, new) ==
    IF Len(s) < Len(old) THEN s
    ELSE IF SubSeq(s, 1, Len(old)) = old
         THEN new \o Replace(SubSeq(s, Len(old) + 1, Len(s)), old, new)
         ELSE <<s[1]>> \o Replace(Tail(s), old, new)

EndsWith(s, suffix) ==
    /\ Len(s) >= Len(suffix)
    /\ SubSeq(s, Len(s) - Len(suffix) + 1, Len(s)) = suffix

Contains(s, sub) ==
    \E i \in 1..(Len(s) - Len(sub) + 1) : SubSeq(s, i, i + Len(sub) - 1) = sub

LowerTok(t) ==
    CASE t = "Ted" -> "ted"
      [] t = "TED" -> "ted"
      [] t = "A" -> "a"
      [] t = "B" -> "b"
      [] t = "_Web.pdf" -> "_web.pdf"
      [] t = "_WEB.PDF" -> "_web.pdf"
      [] t = ".DOCX" -> ".docx"
      [] t = "_Notes" -> "_notes"
      [] t = "March" -> "march"
      [] t = "Meeting" -> "meeting"
      [] t = "Speaker" -> "speaker"
      [] t = "SPEAKER" -> "speaker"
      [] t = "Program" -> "program"
      [] t = "Hello" -> "hello"
      [] OTHER -> t

Lower(s) == [i \in 1..Len(s) |-> LowerTok(s[i])]

IsSpace(t) == t = " "

RECURSIVE LStrip(_)
LStrip(s) == IF s # <<>> /\ IsSpace(s[1]) THEN LStrip(Tail(s)) ELSE s

RECURSIVE RStrip(_)
RStrip(s) ==
    IF s # <<>> /\ IsSpace(s[Len(s)]) THEN RStrip(SubSeq(s, 1, Len(s) - 1)) ELSE s

Strip(s) == RStrip(LStrip(s))

SeqsUpTo(S, n) == UNION {[1..k -> S] : k \in 0..n}

(***************************************************************************)
(* Configuration (module level, lines 31-67)                               *)
(***************************************************************************)
RequiredNames ==
    <<"MAILCHIMP_API_KEY", "MAILCHIMP_LIST_ID", "WIX_API_KEY", "WIX_SITE_ID",
      "DROPBOX_ACCESS_TOKEN">>

NameSet == {RequiredNames[i] : i \in 1..Len(RequiredNames)}

SetValue(name) ==
    CASE name = "MAILCHIMP_API_KEY" -> <<"key", "-", "us1">>
      [] name = "MAILCHIMP_LIST_ID" -> <<"list1">>
      [] name = "WIX_API_KEY" -> <<"wixkey">>
      [] name = "WIX_SITE_ID" -> <<"site1">>
      [] OTHER -> <<"token">>

\* os.getenv gives None for an unset variable and "" for an empty one.
Environments == [NameSet -> {None, <<>>, <<"set">>}]

getenv(e, name) == IF e[name] = <<"set">> THEN SetValue(name) ELSE e[name]

required_vars(e) == [i \in 1..Len(RequiredNames) |-> getenv(e, RequiredNames[i])]

\* the check written as "is None": an empty value passes
MissingIdx_NoneOnly(e) == {i \in 1..Len(RequiredNames) : required_vars(e)[i] = None}

MissingIdx(e) == {i \in 1..Len(RequiredNames) : Falsy(required_vars(e)[i])}

FirstMissing(e) == CHOOSE i \in MissingIdx(e) : \A j \in MissingIdx(e) : i <= j

RECURSIVE SplitLast(_)
\* key.split("-")[-1]
SplitLast(s) ==
    IF s = <<>> THEN <<>>
    ELSE IF s[Len(s)] = "-" THEN <<>>
    ELSE SplitLast(SubSeq(s, 1, Len(s) - 1)) \o <<s[Len(s)]>>

DC(e) == SplitLast(getenv(e, "MAILCHIMP_API_KEY"))

MAILCHIMP_BASE_URL(e) == <<"https://">> \o DC(e) \o <<".api.mailchimp.com/3.0">>

\* datetime.now().year, rendered into the path
Year == <<"YYYY">>

FolderPath(month) ==
    <<"/Newsletter/Monthly Newsletters/">> \o Year \o <<" Newsletter/">> \o month

Fallback == <<"See newsletter for meeting details">>

(***************************************************************************)
(* Data the providers and the operator can supply                          *)
(***************************************************************************)
Months == {<<"March">>}

\* sys.argv[1] when given (None: no argument); an empty argument is possible.
Arguments == {None, <<>>} \cup Months

\* what the operator types at the input() prompt
TypedInputs == {<<>>, <<" ">>, <<" ", "March", " ">>}

FileNames ==
    {<<"A", "_Web.pdf">>, <<"B", "_Web.pdf">>, <<"B", ".docx">>,
     <<"Ted", "_Notes", ".docx">>}

Entry(folder, name) ==
    [name |-> name, path_lower |-> Lower(folder \o <<"/">> \o name)]

Listings(folder) == SeqsUpTo({Entry(folder, n) : n \in FileNames}, MaxEntries)

ShareUrls ==
    {<<"https://", "www.dropbox.com", "/s/xyz?", "dl=0">>,
     <<"https://", "www.dropbox.com", "/scl/fi/abc?rlkey=k&", "dl=0">>}

ParaTexts == {<<>>, <<" ">>, <<"Hello">>, <<" ", "Meeting", " at 7pm", " ">>}

\* response.content of the download: b"", bytes that are no docx, or a docx
EmptyBytes == [nonempty |-> FALSE, valid |-> FALSE, paragraphs |-> <<>>]

GarbageBytes == [nonempty |-> TRUE, valid |-> FALSE, paragraphs |-> <<>>]

DocxBytes(ps) == [nonempty |-> TRUE, valid |-> TRUE, paragraphs |-> ps]

Contents ==
    {EmptyBytes, GarbageBytes} \cup {DocxBytes(ps) : ps \in SeqsUpTo(ParaTexts, MaxParas)}

MediaIds == {<<"m1">>, <<"m2">>}

MediaUrls(e) ==
    {<<"https://">> \o getenv(e, "WIX_SITE_ID") \o <<".usrfiles.com/ugd/", "f1.pdf">>,
     <<"https://", "static.wixstatic.com/ugd/", "f1.pdf">>}

ItemIds == {<<"i1">>}

CampaignIds == {<<"c1">>, <<"c2">>}

WebIds == {<<"101">>, <<"102">>}

\* the two placeholders, their braces apart from their names: a text can hold
\* part of a placeholder
MonthPlaceholder == <<"{{", "MONTH", "}}">>

LinkPlaceholder == <<"{{", "WIX_LINK", "}}">>

Templates ==
    {<<"<h1>">> \o MonthPlaceholder \o <<"</h1><a href=">> \o LinkPlaceholder \o <<">">>}

TemplateFiles == {None} \cup Templates

(***************************************************************************)
(* Responses and requests                                                  *)
(***************************************************************************)
NoResp == [kind |-> "none", status |-> 0, body |-> <<>>, text |-> <<>>]

\* requests raised (connection error, timeout): there is no status
ExcResp == [kind |-> "exc", status |-> 0, body |-> <<>>, text |-> <<>>]

\* body is response.json(); text is response.text, which for an error status is
\* the provider's description of the error
ErrorBody == <<"error_summary">>

HttpResp(status, body) ==
    [kind |-> "http", status |-> status, body |-> body,
     text |-> IF status = 200 THEN <<"json">> ELSE ErrorBody]

Req(endpoint, arg) == [endpoint |-> endpoint, arg |-> arg]

NewCall(req) == [endpoint |-> req.endpoint, arg |-> req.arg, outcome |-> "pending"]

\* a call succeeded when it returned status 200; a non-success status and an
\* exception are both failures
Outcome(resp) == IF resp.kind = "http" /\ resp.status = 200 THEN "ok" ELSE "fail"

Msg(m, v) == [msg |-> m, val |-> v]

\* str(e) of the exception a failed call raises
ErrText(resp) ==
    IF resp.kind = "http" THEN <<ToString(resp.status), " Error for url">>
    ELSE <<"Connection error">>

(***************************************************************************)
(* The functions of the script, applied to the response of their call      *)
(***************************************************************************)
IsWebPdf(e) == EndsWith(e.name, <<"_Web.pdf">>)

find_newsletter_pdf(resp) ==
    IF resp.status = 200
    THEN LET pdf_files == SelectSeq(resp.body, IsWebPdf)
         IN  IF pdf_files # <<>>
             THEN <<[path |-> pdf_files[1].path_lower, filename |-> pdf_files[1].name]>>
             ELSE <<>>
    ELSE <<>>

DirectDownload(share_url) ==
    Replace(Replace(share_url, <<"dl=0">>, <<"dl=1">>),
            <<"www.dropbox.com">>, <<"dl.dropboxusercontent.com">>)

\* a conflict taken for a failure: the existing link is not looked up
create_dropbox_share_link_NoReuse(create_resp, list_resp) ==
    IF create_resp.status = 200 THEN DirectDownload(create_resp.body) ELSE None

\* the existing link returned as the provider lists it
create_dropbox_share_link_RawOnConflict(create_resp, list_resp) ==
    IF create_resp.status = 200
    THEN DirectDownload(create_resp.body)
    ELSE IF create_resp.status = 409
    THEN IF list_resp.status = 200 /\ list_resp.body # <<>>
         THEN list_resp.body[1].url
         ELSE None
    ELSE None

\* an empty text instead of None when the provider lists no link
create_dropbox_share_link_EmptyText(create_resp, list_resp) ==
    IF create_resp.status = 200
    THEN DirectDownload(create_resp.body)
    ELSE IF create_resp.status = 409
    THEN IF list_resp.status = 200 /\ list_resp.body # <<>>
         THEN DirectDownload(list_resp.body[1].url)
         ELSE <<>>
    ELSE None

\* what create_dropbox_share_link returns, given the answer to the creation
\* call and (after a conflict) the answer to the list call
create_dropbox_share_link(create_resp, list_resp) ==
    IF create_resp.status = 200
    THEN DirectDownload(create_resp.body)
    ELSE IF create_resp.status = 409
    THEN IF list_resp.status = 200 /\ list_resp.body # <<>>
         THEN DirectDownload(list_resp.body[1].url)
         ELSE None
    ELSE None

\* the name searched for "ted" as it is spelled
IsTedDocx_CaseSensitive(e) ==
    Contains(e.name, <<"ted">>) /\ EndsWith(e.name, <<".docx">>)

IsTedDocx(e) == Contains(Lower(e.name), <<"ted">>) /\ EndsWith(e.name, <<".docx">>)

find_teds_thoughts(resp) ==
    IF resp.status = 200
    THEN LET ted_files == SelectSeq(resp.body, IsTedDocx)
         IN  IF ted_files # <<>> THEN ted_files[1].path_lower ELSE None
    ELSE None

download_dropbox_file(resp) == IF resp.status = 200 THEN resp.body ELSE <<>>

ScanLimit == 10
FallbackLimit == 5

Prefix(s, n) == SubSeq(s, 1, IF Len(s) < n THEN Len(s) ELSE n)

HasKeyword(text) ==
    \/ Contains(Lower(text), <<"meeting">>)
    \/ Contains(Lower(text), <<"speaker">>)
    \/ Contains(Lower(text), <<"program">>)

IsMeetingText(text) == text # <<>> /\ HasKeyword(text)

NonEmptyText(text) == text # <<>>

StripAll(ps) == [i \in 1..Len(ps) |-> Strip(ps[i])]

\* the first paragraph taken when no keyword is found, empty or not
extract_meeting_info_NoEmptyCheck(docx_bytes) ==
    IF ~docx_bytes.valid THEN Fallback
    ELSE LET meeting_info ==
                 SelectSeq(StripAll(Prefix(docx_bytes.paragraphs, ScanLimit)), IsMeetingText)
             first_few == StripAll(Prefix(docx_bytes.paragraphs, FallbackLimit))
         IN  IF meeting_info # <<>> THEN meeting_info[1]
             ELSE IF first_few # <<>> THEN first_few[1]
             ELSE Fallback

\* the first non-empty paragraph preferred to a later paragraph with a keyword
extract_meeting_info_FirstNonEmpty(docx_bytes) ==
    IF ~docx_bytes.valid THEN Fallback
    ELSE LET meeting_info ==
                 SelectSeq(StripAll(Prefix(docx_bytes.paragraphs, ScanLimit)), IsMeetingText)
             first_few ==
                 SelectSeq(StripAll(Prefix(docx_bytes.paragraphs, FallbackLimit)), NonEmptyText)
         IN  IF first_few # <<>> THEN first_few[1]
             ELSE IF meeting_info # <<>> THEN meeting_info[1]
             ELSE Fallback

extract_meeting_info(docx_bytes) ==
    IF ~docx_bytes.valid THEN Fallback
    ELSE LET meeting_info ==
                 SelectSeq(StripAll(Prefix(docx_bytes.paragraphs, ScanLimit)), IsMeetingText)
             first_few ==
                 SelectSeq(StripAll(Prefix(docx_bytes.paragraphs, FallbackLimit)), NonEmptyText)
         IN  IF meeting_info # <<>> THEN meeting_info[1]
             ELSE IF first_few # <<>> THEN first_few[1]
             ELSE Fallback

\* the record with the URL as the provider gave it
import_file_to_wix_NoRewrite(resp, display_name, e) ==
    IF resp.status = 200
    THEN LET file_info == resp.body[1]
         IN  <<[fileId |-> file_info.id,
                wixDocRef |-> <<"wix:document://v1/ugd/">> \o file_info.id
                                 \o <<"/">> \o display_name,
                url |-> file_info.url,
                displayName |-> display_name]>>
    ELSE <<>>

import_file_to_wix(resp, display_name, e) ==
    IF resp.status = 200
    THEN LET file_info == resp.body[1]
         IN  <<[fileId |-> file_info.id,
                wixDocRef |-> <<"wix:document://v1/ugd/">> \o file_info.id
                                 \o <<"/">> \o display_name,
                url |-> Replace(file_info.url,
                                <<"https://">> \o getenv(e, "WIX_SITE_ID")
                                    \o <<".usrfiles.com/ugd/">>,
                                <<"https://", "www.dmlsclub.com/_files/ugd/">>),
                displayName |-> display_name]>>
    ELSE <<>>

\* the record create_wix_cms_entry submits; publishMonth is a field of the
\* record only when a date was given
MonthNumbers == {"01", "02", "03", "04", "05", "06", "07", "08", "09", "10", "11", "12"}

\* %b of strftime
MonthAbbr(mm) ==
    CASE mm = "01" -> "Jan" [] mm = "02" -> "Feb" [] mm = "03" -> "Mar"
      [] mm = "04" -> "Apr" [] mm = "05" -> "May" [] mm = "06" -> "Jun"
      [] mm = "07" -> "Jul" [] mm = "08" -> "Aug" [] mm = "09" -> "Sep"
      [] mm = "10" -> "Oct" [] mm = "11" -> "Nov" [] mm = "12" -> "Dec"

\* datetime.fromisoformat accepts a date, a date with a time, and a date with
\* a time and an offset; it raises ValueError on any other text
IsIsoFormat(s) ==
    /\ Len(s) \in {5, 7, 8}
    /\ s[2] = "-" /\ s[4] = "-" /\ s[3] \in MonthNumbers
    /\ Len(s) >= 7 => s[6] = "T"
    /\ Len(s) = 8 => s[8] = "+00:00"

fromisoformat(s) == [year |-> s[1], month |-> s[3], day |-> s[5]]

\* strftime("%b %d, %Y")
strftime(date_obj) ==
    <<MonthAbbr(date_obj.month), " ", date_obj.day, ", ", date_obj.year>>

\* line 263 raises when the text given as publish date is no ISO date
DateRaises(publish_date) ==
    ~Falsy(publish_date) /\ ~IsIsoFormat(Replace(publish_date, <<"Z">>, <<"+00:00">>))

\* the record with today's date when no publish date is given
CmsData_DefaultsToToday(title, wix_doc_ref, publish_date, summary) ==
    LET formatted_date ==
            IF Falsy(publish_date) THEN <<"today">>
            ELSE strftime(fromisoformat(Replace(publish_date, <<"Z">>, <<"+00:00">>)))
        fields == <<[key |-> "title", value |-> title],
                    [key |-> "newsletter", value |-> wix_doc_ref],
                    [key |-> "newsletterSummary", value |-> summary]>>
    IN  IF ~Falsy(formatted_date)
        THEN Append(fields, [key |-> "publishMonth", value |-> formatted_date])
        ELSE fields

CmsData(title, wix_doc_ref, publish_date, summary) ==
    LET formatted_date ==
            IF Falsy(publish_date) THEN None
            ELSE strftime(fromisoformat(Replace(publish_date, <<"Z">>, <<"+00:00">>)))
        fields == <<[key |-> "title", value |-> title],
                    [key |-> "newsletter", value |-> wix_doc_ref],
                    [key |-> "newsletterSummary", value |-> summary]>>
    IN  IF ~Falsy(formatted_date)
        THEN Append(fields, [key |-> "publishMonth", value |-> formatted_date])
        ELSE fields

create_wix_cms_entry(resp) == IF resp.status = 200 THEN resp.body ELSE None

CampaignData(month, e) ==
    [type |-> "regular",
     list_id |-> getenv(e, "MAILCHIMP_LIST_ID"),
     subject_line |-> <<"DMSC ">> \o month \o <<" Newsletter is available!">>,
     title |-> month \o <<" Newsletter">>]

\* the month written before its placeholder, which stays in the text
Customize_KeepsPlaceholder(template_html, month, wix_url) ==
    Replace(Replace(template_html, MonthPlaceholder, month \o MonthPlaceholder),
            LinkPlaceholder, wix_url)

Customize(template_html, month, wix_url) ==
    Replace(Replace(template_html, MonthPlaceholder, month), LinkPlaceholder, wix_url)

EditUrl(e, web_id) ==
    <<"https://">> \o DC(e) \o <<".admin.mailchimp.com/campaigns/edit?id=">> \o web_id

(***************************************************************************)
(* State                                                                   *)
(***************************************************************************)
VARIABLES
    unit,             \* a function of the script applied on its own (see below)
    env,              \* the environment variables read at lines 32-40
    argv,             \* sys.argv[1], None when the script got no argument
    typed,            \* what the operator typed at the prompt, None before
    template_file,    \* newsletter_template.html: None when it does not exist
    ext,              \* what the three providers hold
    pc,               \* where the process is: the call it is blocked in
    inflight,         \* requests sent and not yet answered
    response,         \* the answer the blocked call returns with
    calls,            \* every request issued so far, with its outcome
    month_name, pdf_info, share_link, meeting_summary, wix_result, cms_id,
    customized_html, campaign_id, web_url,
    printed,          \* what was written to the terminal
    exitCode,         \* <<>> while running, <<code>> once the process ended
    interrupted       \* the operator pressed Ctrl-C

locals ==
    <<typed, month_name, pdf_info, share_link, meeting_summary, wix_result, cms_id,
      customized_html, campaign_id, web_url>>

vars ==
    <<unit, env, argv, template_file, ext, pc, inflight, response, calls, locals, printed,
      exitCode, interrupted>>

MainPcs ==
    {"main", "step1", "step2", "step2b", "step3", "step3b", "step4", "step5",
     "step7", "step8", "summary"}

\* no request made, no local of main() bound, nothing printed
NothingDoneYet ==
    /\ typed = None
    /\ inflight = {}
    /\ response = NoResp
    /\ calls = <<>>
    /\ month_name = None
    /\ pdf_info = <<>>
    /\ share_link = None
    /\ meeting_summary = None
    /\ wix_result = <<>>
    /\ cms_id = None
    /\ customized_html = None
    /\ campaign_id = None
    /\ web_url = None
    /\ printed = <<>>
    /\ exitCode = <<>>
    /\ interrupted = FALSE

\* the script is run as a whole: no function is applied on its own
NoUnit == [fn |-> "none"]

Init ==
    /\ unit = NoUnit
    /\ env \in Environments
    /\ argv \in Arguments
    /\ template_file \in TemplateFiles
    /\ \E l \in {<<>>} \cup {<<[url |-> u]>> : u \in ShareUrls} :
          ext = [links |-> l, media |-> {}, items |-> {}, campaigns |-> {}]
    /\ pc = "config"
    /\ NothingDoneYet

(***************************************************************************)
(* The providers                                                           *)
(***************************************************************************)
Result(resp, e) == [resp |-> resp, ext |-> e]

\* what a provider can do with a request when it carries it out
Performed(req, e) ==
    CASE req.endpoint = "list_folder" ->
           {Result(HttpResp(200, l), e) : l \in Listings(req.arg)}
      [] req.endpoint = "create_shared_link" ->
           IF e.links = <<>>
           THEN {Result(HttpResp(200, u), [e EXCEPT !.links = <<[url |-> u]>>]) :
                    u \in ShareUrls}
           ELSE {Result(HttpResp(409, <<>>), e)}
      [] req.endpoint = "list_shared_links" ->
           {Result(HttpResp(200, e.links), e), Result(HttpResp(200, <<>>), e)}
      [] req.endpoint = "download" ->
           {Result(HttpResp(200, <<c>>), e) : c \in Contents}
      [] req.endpoint = "import" ->
           {Result(HttpResp(200, <<[id |-> i, url |-> u]>>),
                   [e EXCEPT !.media = @ \cup {[id |-> i, source |-> req.arg[1].url]}]) :
                i \in MediaIds, u \in MediaUrls(env)}
      [] req.endpoint = "create_item" ->
           {Result(HttpResp(200, i),
                   [e EXCEPT !.items = @ \cup {[id |-> i, data |-> req.arg]}]) :
                i \in {j \in ItemIds : \A it \in e.items : it.id # j}}
      [] req.endpoint = "create_campaign" ->
           {Result(HttpResp(200, <<[id |-> c, web_id |-> w]>>),
                   [e EXCEPT !.campaigns = @ \cup
                        {[id |-> c, web_id |-> w, status |-> "save", html |-> None]}]) :
                c \in {d \in CampaignIds : \A k \in e.campaigns : k.id # d},
                w \in WebIds}
      [] req.endpoint = "set_content" ->
           {Result(HttpResp(200, <<>>),
                   [e EXCEPT !.campaigns =
                        {IF k.id = req.arg[1].id
                         THEN [k EXCEPT !.html = req.arg[1].html] ELSE k : k \in @}])
                : x \in {c \in e.campaigns : c.id = req.arg[1].id}}
      [] req.endpoint = "get_campaign" ->
           {Result(HttpResp(200, <<[id |-> k.id, web_id |-> k.web_id]>>), e) :
                k \in {c \in e.campaigns : c.id = req.arg[1].id}}
      [] OTHER -> {}

\* everything a request can come to: carried out and answered, refused with
\* an error status, the connection failing before the provider acted, or the
\* connection failing after it acted
Outcomes(req, e) ==
    Performed(req, e)
      \cup {Result(HttpResp(500, <<>>), e), Result(ExcResp, e)}
      \cup {Result(ExcResp, o.ext) : o \in Performed(req, e)}

\* the provider handles the request the process is blocked on
Serve ==
    /\ pc \in MainPcs
    /\ response.kind = "none"
    /\ \E req \in inflight : \E o \in Outcomes(req, ext) :
          /\ response' = o.resp
          /\ ext' = o.ext
    /\ UNCHANGED <<unit, env, argv, template_file, pc, inflight, calls, locals, printed,
                   exitCode, interrupted>>

(***************************************************************************)
(* The process                                                             *)
(***************************************************************************)
\* the request the process is blocked on, once its answer is there
Answered == IF response.kind = "none" THEN {} ELSE {Req(calls[Len(calls)].endpoint,
                                                        calls[Len(calls)].arg)}

Closed(cs) ==
    IF response.kind = "none" THEN cs
    ELSE [cs EXCEPT ![Len(cs)].outcome = Outcome(response)]

\* the blocking call returned; run on and block in the next call
CallNext(nextpc, req, msgs) ==
    /\ pc' = nextpc
    /\ inflight' = (inflight \ Answered) \cup {req}
    /\ calls' = Append(Closed(calls), NewCall(req))
    /\ response' = NoResp
    /\ printed' = printed \o msgs
    /\ UNCHANGED <<unit, env, argv, template_file, ext, exitCode, interrupted>>

\* sys.exit(code), or main() returning (code 0)
Exit(code, msgs) ==
    /\ pc' = "exited"
    /\ exitCode' = <<code>>
    /\ inflight' = inflight \ Answered
    /\ calls' = Closed(calls)
    /\ response' = NoResp
    /\ printed' = printed \o msgs
    /\ UNCHANGED <<unit, env, argv, template_file, ext, interrupted>>

\* the handler of the __main__ guard without its sys.exit(1)
Unexpected_ExitsZero == Exit(0, <<Msg("unexpected_error", ErrText(response))>>)

\* an exception no step catches reaches the handler of the __main__ guard
Unexpected == Exit(1, <<Msg("unexpected_error", ErrText(response))>>)

\* lines 29-67: read the environment and check the five required values
LoadConfig ==
    /\ pc = "config"
    /\ IF MissingIdx(env) # {}
       THEN Exit(1, <<Msg("config_error", <<RequiredNames[FirstMissing(env)]>>)>>)
       ELSE /\ pc' = "main"
            /\ UNCHANGED <<unit, env, argv, template_file, ext, inflight, response, calls,
                           printed, exitCode, interrupted>>
    /\ UNCHANGED locals

\* lines 353-378: the month, then the folder listing of step 1
Start ==
    /\ pc = "main"
    /\ \E line \in IF argv # None THEN {None} ELSE TypedInputs :
          LET month == IF argv # None THEN argv ELSE Strip(line)
          IN  /\ typed' = line
              /\ IF argv = None /\ Falsy(month)
                 THEN /\ Exit(1, <<Msg("month_required", <<>>)>>)
                      /\ month_name' = month_name
                 ELSE /\ month_name' = month
                      /\ CallNext("step1", Req("list_folder", FolderPath(month)),
                                  <<Msg("processing", month)>>)
    /\ UNCHANGED <<pdf_info, share_link, meeting_summary, wix_result, cms_id,
                   customized_html, campaign_id, web_url>>

\* lines 91-102 and 380-394: the PDF, then the share-link request of step 2
Step1 ==
    /\ pc = "step1"
    /\ response.kind # "none"
    /\ IF response.kind = "exc"
       THEN Unexpected /\ UNCHANGED locals
       ELSE LET info == find_newsletter_pdf(response)
            IN  IF info = <<>>
                THEN /\ Exit(1, <<Msg("pdf_not_found", month_name)>>)
                     /\ UNCHANGED locals
                ELSE /\ pdf_info' = info
                     /\ CallNext("step2", Req("create_shared_link", info[1].path),
                                 <<Msg("found_pdf", info[1].filename)>>)
                     /\ UNCHANGED <<typed, month_name, share_link, meeting_summary,
                                    wix_result, cms_id, customized_html, campaign_id,
                                    web_url>>

\* step 2 without its "if not share_link" check
GotShareLink_Unchecked(link) ==
    /\ share_link' = link
    /\ CallNext("step3", Req("list_folder", FolderPath(month_name)),
                <<Msg("share_created", <<>>)>>)
    /\ UNCHANGED <<typed, month_name, pdf_info, meeting_summary, wix_result, cms_id,
                   customized_html, campaign_id, web_url>>

\* lines 396-407: with the share link, on to the folder listing of step 3
GotShareLink(link) ==
    IF Falsy(link)
    THEN /\ Exit(1, <<Msg("share_failed", <<>>)>>)
         /\ UNCHANGED locals
    ELSE /\ share_link' = link
         /\ CallNext("step3", Req("list_folder", FolderPath(month_name)),
                     <<Msg("share_created", <<>>)>>)
         /\ UNCHANGED <<typed, month_name, pdf_info, meeting_summary, wix_result, cms_id,
                        customized_html, campaign_id, web_url>>

\* step 2 asking for the link again when the provider answers conflict
Step2_Retries ==
    /\ pc = "step2"
    /\ response.kind # "none"
    /\ IF response.kind = "exc"
       THEN Unexpected /\ UNCHANGED locals
       ELSE IF response.status = 409
       THEN /\ CallNext("step2", Req("create_shared_link", pdf_info[1].path), <<>>)
            /\ UNCHANGED locals
       ELSE GotShareLink(create_dropbox_share_link(response, NoResp))

\* lines 119-127: the answer to create_shared_link_with_settings
Step2 ==
    /\ pc = "step2"
    /\ response.kind # "none"
    /\ IF response.kind = "exc"
       THEN Unexpected /\ UNCHANGED locals
       ELSE IF response.status = 409
       THEN /\ CallNext("step2b", Req("list_shared_links", pdf_info[1].path), <<>>)
            /\ UNCHANGED locals
       ELSE GotShareLink(create_dropbox_share_link(response, NoResp))

\* lines 129-135: the answer to list_shared_links
Step2b ==
    /\ pc = "step2b"
    /\ response.kind # "none"
    /\ IF response.kind = "exc"
       THEN Unexpected /\ UNCHANGED locals
       ELSE GotShareLink(create_dropbox_share_link(HttpResp(409, <<>>), response))

\* lines 421-427: with the summary, on to the media import of step 4
GotSummary(summary, msgs) ==
    /\ meeting_summary' = summary
    /\ CallNext("step4",
                Req("import", <<[url |-> share_link, displayName |-> pdf_info[1].filename]>>),
                msgs)
    /\ UNCHANGED <<typed, month_name, pdf_info, share_link, wix_result, cms_id,
                   customized_html, campaign_id, web_url>>

\* step 3 stopping the run when there is no Ted's Thoughts document
Step3_HaltsWhenMissing ==
    /\ pc = "step3"
    /\ response.kind # "none"
    /\ IF response.kind = "exc"
       THEN Unexpected /\ UNCHANGED locals
       ELSE LET ted_path == find_teds_thoughts(response)
            IN  IF ~Falsy(ted_path)
                THEN /\ CallNext("step3b", Req("download", ted_path),
                                 <<Msg("ted_found", ted_path)>>)
                     /\ UNCHANGED locals
                ELSE /\ Exit(1, <<Msg("no_ted", <<>>)>>)
                     /\ UNCHANGED locals

\* lines 154-161 and 409-420: the answer to the listing of step 3
Step3 ==
    /\ pc = "step3"
    /\ response.kind # "none"
    /\ IF response.kind = "exc"
       THEN Unexpected /\ UNCHANGED locals
       ELSE LET ted_path == find_teds_thoughts(response)
            IN  IF ~Falsy(ted_path)
                THEN /\ CallNext("step3b", Req("download", ted_path),
                                 <<Msg("ted_found", ted_path)>>)
                     /\ UNCHANGED locals
                ELSE GotSummary(Fallback, <<Msg("no_ted", <<>>)>>)

\* lines 174-177 and 412-417: the answer to the download
Step3b ==
    /\ pc = "step3b"
    /\ response.kind # "none"
    /\ IF response.kind = "exc"
       THEN Unexpected /\ UNCHANGED locals
       ELSE LET docx_bytes == download_dropbox_file(response)
            IN  IF docx_bytes # <<>> /\ docx_bytes[1].nonempty
                THEN GotSummary(extract_meeting_info(docx_bytes[1]),
                                <<Msg("summary", extract_meeting_info(docx_bytes[1]))>>)
                ELSE GotSummary(Fallback, <<Msg("download_warning", <<>>)>>)

\* lines 229-248 and 429-449: the imported file, then the CMS entry of step 5
Step4 ==
    /\ pc = "step4"
    /\ response.kind # "none"
    /\ IF response.kind = "exc"
       THEN Unexpected /\ UNCHANGED locals
       ELSE LET result == import_file_to_wix(response, pdf_info[1].filename, env)
            IN  IF result = <<>>
                THEN /\ Exit(1, <<Msg("wix_failed", <<>>)>>)
                     /\ UNCHANGED locals
                ELSE /\ wix_result' = result
                     /\ CallNext("step5",
                                 Req("create_item",
                                     CmsData(month_name \o <<" ">> \o Year,
                                             result[1].wixDocRef, None, meeting_summary)),
                                 <<Msg("wix_imported", result[1].url)>>)
                     /\ UNCHANGED <<typed, month_name, pdf_info, share_link, meeting_summary,
                                    cms_id, customized_html, campaign_id, web_url>>

\* step 5 going on to the template and the campaign without a CMS entry
Step5_ContinuesWithoutEntry ==
    /\ pc = "step5"
    /\ response.kind # "none"
    /\ IF response.kind = "exc"
       THEN Unexpected /\ UNCHANGED locals
       ELSE LET id == create_wix_cms_entry(response)
            IN  IF template_file = None
                THEN /\ cms_id' = id
                     /\ Exit(1, <<Msg("cms_created", id),
                                  Msg("template_error", <<"Template file not found">>)>>)
                     /\ UNCHANGED <<typed, month_name, pdf_info, share_link, meeting_summary,
                                    wix_result, customized_html, campaign_id, web_url>>
                ELSE /\ cms_id' = id
                     /\ customized_html' =
                            Customize(template_file, month_name, wix_result[1].url)
                     /\ CallNext("step7",
                                 Req("create_campaign", <<CampaignData(month_name, env)>>),
                                 <<Msg("cms_created", id), Msg("template_ok", <<>>)>>)
                     /\ UNCHANGED <<typed, month_name, pdf_info, share_link, meeting_summary,
                                    wix_result, campaign_id, web_url>>

\* lines 285-289 and 451-480: the CMS entry, the template of step 6 (read from
\* disk, no request), then the campaign creation of step 7
Step5 ==
    /\ pc = "step5"
    /\ response.kind # "none"
    /\ IF response.kind = "exc"
       THEN Unexpected /\ UNCHANGED locals
       ELSE LET id == create_wix_cms_entry(response)
            IN  IF Falsy(id)
                THEN /\ Exit(1, <<Msg("cms_failed", <<>>)>>)
                     /\ UNCHANGED locals
                ELSE IF template_file = None
                THEN /\ cms_id' = id
                     /\ Exit(1, <<Msg("cms_created", id),
                                  Msg("template_error", <<"Template file not found">>)>>)
                     /\ UNCHANGED <<typed, month_name, pdf_info, share_link, meeting_summary,
                                    wix_result, customized_html, campaign_id, web_url>>
                ELSE /\ cms_id' = id
                     /\ customized_html' =
                            Customize(template_file, month_name, wix_result[1].url)
                     /\ CallNext("step7",
                                 Req("create_campaign", <<CampaignData(month_name, env)>>),
                                 <<Msg("cms_created", id), Msg("template_ok", <<>>)>>)
                     /\ UNCHANGED <<typed, month_name, pdf_info, share_link, meeting_summary,
                                    wix_result, campaign_id, web_url>>

\* step 7 reporting the error without sys.exit(1)
Step7_NoHalt ==
    /\ pc = "step7"
    /\ response.kind # "none"
    /\ IF Outcome(response) = "fail"
       THEN /\ CallNext("step8",
                        Req("set_content", <<[id |-> campaign_id, html |-> customized_html]>>),
                        <<Msg("campaign_error", ErrText(response))>>)
            /\ UNCHANGED locals
       ELSE /\ campaign_id' = response.body[1].id
            /\ CallNext("step8",
                        Req("set_content",
                            <<[id |-> response.body[1].id, html |-> customized_html]>>),
                        <<Msg("campaign_id", response.body[1].id)>>)
            /\ UNCHANGED <<typed, month_name, pdf_info, share_link, meeting_summary,
                           wix_result, cms_id, customized_html, web_url>>

\* lines 323-325 and 481-495: the created campaign, then the upload of step 8
Step7 ==
    /\ pc = "step7"
    /\ response.kind # "none"
    /\ IF Outcome(response) = "fail"
       THEN /\ Exit(1, <<Msg("campaign_error", ErrText(response))>>)
            /\ UNCHANGED locals
       ELSE /\ campaign_id' = response.body[1].id
            /\ CallNext("step8",
                        Req("set_content",
                            <<[id |-> response.body[1].id, html |-> customized_html]>>),
                        <<Msg("campaign_id", response.body[1].id)>>)
            /\ UNCHANGED <<typed, month_name, pdf_info, share_link, meeting_summary,
                           wix_result, cms_id, customized_html, web_url>>

\* step 8 sending the campaign once its content is uploaded
Step8_AutoSend ==
    /\ pc = "step8"
    /\ response.kind # "none"
    /\ IF Outcome(response) = "fail"
       THEN Exit(1, <<Msg("content_error", ErrText(response))>>)
       ELSE CallNext("summary", Req("send_campaign", <<[id |-> campaign_id]>>),
                     <<Msg("content_uploaded", <<>>), Msg("success_banner", <<>>)>>)
    /\ UNCHANGED locals

\* step 8 deleting the campaign when the upload fails
Step8_Compensates ==
    /\ pc = "step8"
    /\ response.kind # "none"
    /\ IF Outcome(response) = "fail"
       THEN CallNext("summary", Req("delete_campaign", <<[id |-> campaign_id]>>),
                     <<Msg("content_error", ErrText(response))>>)
       ELSE CallNext("summary", Req("get_campaign", <<[id |-> campaign_id]>>),
                     <<Msg("content_uploaded", <<>>), Msg("success_banner", <<>>)>>)
    /\ UNCHANGED locals

\* lines 335-337 and 496-515: the upload, the success banner, then the
\* retrieval of the campaign for its edit URL
Step8 ==
    /\ pc = "step8"
    /\ response.kind # "none"
    /\ IF Outcome(response) = "fail"
       THEN Exit(1, <<Msg("content_error", ErrText(response))>>)
       ELSE CallNext("summary", Req("get_campaign", <<[id |-> campaign_id]>>),
                     <<Msg("content_uploaded", <<>>), Msg("success_banner", <<>>)>>)
    /\ UNCHANGED locals

\* the edit URL built from the campaign's id instead of its web_id
Summary_WrongId ==
    /\ pc = "summary"
    /\ response.kind # "none"
    /\ IF Outcome(response) = "fail"
       THEN Unexpected /\ UNCHANGED locals
       ELSE /\ web_url' = EditUrl(env, response.body[1].id)
            /\ Exit(0, <<Msg("edit_url", EditUrl(env, response.body[1].id))>>)
            /\ UNCHANGED <<typed, month_name, pdf_info, share_link, meeting_summary,
                           wix_result, cms_id, customized_html, campaign_id>>

\* a failed retrieval made up for with an edit URL built from the campaign id
Summary_FallsBackToId ==
    /\ pc = "summary"
    /\ response.kind # "none"
    /\ IF Outcome(response) = "fail"
       THEN /\ web_url' = EditUrl(env, campaign_id)
            /\ Exit(0, <<Msg("edit_url", EditUrl(env, campaign_id))>>)
            /\ UNCHANGED <<typed, month_name, pdf_info, share_link, meeting_summary,
                           wix_result, cms_id, customized_html, campaign_id>>
       ELSE /\ web_url' = EditUrl(env, response.body[1].web_id)
            /\ Exit(0, <<Msg("edit_url", EditUrl(env, response.body[1].web_id))>>)
            /\ UNCHANGED <<typed, month_name, pdf_info, share_link, meeting_summary,
                           wix_result, cms_id, customized_html, campaign_id>>

\* lines 344-350 and 515-525: the edit URL, and main() returns
Summary ==
    /\ pc = "summary"
    /\ response.kind # "none"
    /\ IF Outcome(response) = "fail"
       THEN Unexpected /\ UNCHANGED locals
       ELSE /\ web_url' = EditUrl(env, response.body[1].web_id)
            /\ Exit(0, <<Msg("edit_url", EditUrl(env, response.body[1].web_id))>>)
            /\ UNCHANGED <<typed, month_name, pdf_info, share_link, meeting_summary,
                           wix_result, cms_id, customized_html, campaign_id>>

\* the except clauses of steps 7 and 8 written so that they catch the interrupt
Interrupt_Caught ==
    /\ pc \in MainPcs
    /\ pc' = "exited"
    /\ exitCode' = IF pc \in {"step7", "step8"} THEN <<1>> ELSE <<0>>
    /\ interrupted' = TRUE
    /\ inflight' = {}
    /\ calls' = calls
    /\ response' = NoResp
    /\ printed' = Append(printed, Msg("cancelled", <<>>))
    /\ UNCHANGED <<unit, env, argv, template_file, ext, locals>>

\* lines 531-533: Ctrl-C anywhere in main(); KeyboardInterrupt is no Exception,
\* so no except clause of main() or of extract_meeting_info catches it.  The
\* blocked call is given up: its connection closes with the process (a provider
\* that had already acted before the interrupt is the Serve step before it).
Interrupt ==
    /\ pc \in MainPcs
    /\ pc' = "exited"
    /\ exitCode' = <<0>>
    /\ interrupted' = TRUE
    /\ inflight' = {}
    /\ calls' = calls
    /\ response' = NoResp
    /\ printed' = Append(printed, Msg("cancelled", <<>>))
    /\ UNCHANGED <<unit, env, argv, template_file, ext, locals>>

Next ==
    \/ LoadConfig
    \/ Start
    \/ Serve
    \/ Step1
    \/ Step2
    \/ Step2b
    \/ Step3
    \/ Step3b
    \/ Step4
    \/ Step5
    \/ Step7
    \/ Step8
    \/ Summary
    \/ Interrupt

Spec == Init /\ [][Next]_vars

(***************************************************************************)
(* The functions of the script applied on their own, the way the test      *)
(* scripts of the repository call them: an action applies one function to  *)
(* inputs drawn from bounded sets and keeps inputs and result in unit.     *)
(***************************************************************************)
MaxLinks == 2
MaxInvocations == 2

mainvars ==
    <<env, argv, template_file, ext, pc, inflight, response, calls, locals, printed,
      exitCode, interrupted>>

UnitInit ==
    /\ unit = [fn |-> "idle"]
    /\ env = [n \in NameSet |-> <<"set">>]
    /\ argv = None
    /\ template_file = None
    /\ ext = [links |-> <<>>, media |-> {}, items |-> {}, campaigns |-> {}]
    /\ pc = "unit"
    /\ NothingDoneYet

UnitPath == Lower(FolderPath(<<"March">>) \o <<"/", "A", "_Web.pdf">>)

LinkLists == SeqsUpTo({[url |-> u] : u \in ShareUrls}, MaxLinks)

\* one invocation of create_dropbox_share_link (lines 105-135) against a
\* provider holding the links kept: the creation call and, after a conflict,
\* the list call; raised tells that a call raised instead of returning
ShareInvocation(kept, c, l) ==
    LET listed == c.resp.kind = "http" /\ c.resp.status = 409
        raised == c.resp.kind = "exc" \/ (listed /\ l.resp.kind = "exc")
    IN  [create |-> c.resp,
         list |-> IF listed THEN l.resp ELSE NoResp,
         raised |-> raised,
         returned |-> IF raised THEN None
                      ELSE create_dropbox_share_link(c.resp, l.resp),
         kept |-> IF listed THEN l.ext.links ELSE c.ext.links]

InvokeShareLink ==
    /\ pc = "unit"
    /\ unit.fn \in {"idle", "share"}
    /\ \E start \in LinkLists :
          LET log == IF unit.fn = "share" THEN unit.log ELSE <<>>
              kept == IF unit.fn = "share" THEN unit.kept ELSE start
              e == [ext EXCEPT !.links = kept]
          IN  /\ Len(log) < MaxInvocations
              /\ \E c \in Outcomes(Req("create_shared_link", UnitPath), e) :
                 \E l \in Outcomes(Req("list_shared_links", UnitPath), c.ext) :
                    LET inv == ShareInvocation(kept, c, l)
                    IN  unit' = [fn |-> "share", kept |-> inv.kept,
                                 log |-> Append(log, inv)]
    /\ UNCHANGED mainvars

MaxListing == 3

\* names that differ from the ones looked for in case only, among the others
UnitFileNames ==
    FileNames \cup {<<"TED", "_Notes", ".docx">>, <<"Ted", "_Notes", ".DOCX">>,
                    <<"A", "_WEB.PDF">>}

UnitFolder == FolderPath(<<"March">>)

ListingResponses ==
    {HttpResp(200, l) : l \in SeqsUpTo({Entry(UnitFolder, n) : n \in UnitFileNames},
                                       MaxListing)}
        \cup {HttpResp(500, <<>>), ExcResp}

\* find_newsletter_pdf and find_teds_thoughts, each given the same answer to
\* its folder listing
ApplyDiscovery ==
    /\ pc = "unit"
    /\ unit.fn = "idle"
    /\ \E r \in ListingResponses :
          unit' = [fn |-> "discover", resp |-> r, raised |-> r.kind = "exc",
                   pdf |-> IF r.kind = "exc" THEN <<>> ELSE find_newsletter_pdf(r),
                   ted |-> IF r.kind = "exc" THEN None ELSE find_teds_thoughts(r)]
    /\ UNCHANGED mainvars

MaxPad == 10

MaxTail == 2

UnitParaTexts ==
    ParaTexts \cup {<<"Meeting", " at 7pm Thursday">>, <<"Nothing relevant">>,
                    <<"Our ", "SPEAKER">>, <<"program", " notes">>}

Padding(k, filler) == [i \in 1..k |-> filler]

\* documents of up to MaxPad + MaxTail paragraphs: equal leading paragraphs
\* (empty, or without keyword) followed by any short list of paragraphs
UnitDocuments ==
    {EmptyBytes, GarbageBytes} \cup
    {DocxBytes(Padding(k, filler) \o tail) :
        k \in 0..MaxPad, filler \in {<<>>, <<"Hello">>},
        tail \in SeqsUpTo(UnitParaTexts, MaxTail)}

\* extract_meeting_info applied to the bytes of a download
ApplyExtract ==
    /\ pc = "unit"
    /\ unit.fn = "idle"
    /\ \E d \in UnitDocuments :
          unit' = [fn |-> "extract", bytes |-> d, result |-> extract_meeting_info(d)]
    /\ UNCHANGED mainvars

MaxPieces == 3

TemplatePieces ==
    {MonthPlaceholder, LinkPlaceholder, <<"{{">>, <<"}}">>, <<"MONTH">>, <<"<h1>">>}

RECURSIVE Flatten(_)
Flatten(pieces) ==
    IF pieces = <<>> THEN <<>> ELSE Head(pieces) \o Flatten(Tail(pieces))

UnitTemplates == {Flatten(ps) : ps \in SeqsUpTo(TemplatePieces, MaxPieces)}

UnitMonths == Months \cup {<<>>, <<"MONTH">>, <<"March ">> \o MonthPlaceholder}

UnitLinks ==
    {<<"https://", "www.dmlsclub.com/_files/ugd/", "f1.pdf">>, MonthPlaceholder,
     <<"https://x/">> \o LinkPlaceholder}

\* lines 466-467 applied to a template, and again to their own result
ApplyCustomize ==
    /\ pc = "unit"
    /\ unit.fn = "idle"
    /\ \E t \in UnitTemplates, m \in UnitMonths, l \in UnitLinks :
          unit' = [fn |-> "customize", template |-> t, month |-> m, link |-> l,
                   once |-> Customize(t, m, l),
                   twice |-> Customize(Customize(t, m, l), m, l)]
    /\ UNCHANGED mainvars

PublishDates ==
    {None, <<>>, <<"2025", "-", "11", "-", "18", "T", "10:00:00", "Z">>,
     <<"2026", "-", "03", "-", "05">>, <<"next week">>}

UnitDocRef == <<"wix:document://v1/ugd/", "m1", "/", "A", "_Web.pdf">>

\* lines 261-280 of create_wix_cms_entry: the record built for a publish date
ApplyCmsData ==
    /\ pc = "unit"
    /\ unit.fn = "idle"
    /\ \E d \in PublishDates, s \in {Fallback, <<"Hello">>} :
          unit' = [fn |-> "cms", title |-> <<"March", " ">> \o Year, ref |-> UnitDocRef,
                   publish_date |-> d, summary |-> s, raised |-> DateRaises(d),
                   data |-> IF DateRaises(d) THEN <<>>
                            ELSE CmsData(<<"March", " ">> \o Year, UnitDocRef, d, s)]
    /\ UNCHANGED mainvars

UnitNext ==
    \/ InvokeShareLink
    \/ ApplyDiscovery
    \/ ApplyExtract
    \/ ApplyCustomize
    \/ ApplyCmsData

UnitSpec == UnitInit /\ [][UnitNext]_vars

(***************************************************************************)
(* Reading the history                                                     *)
(***************************************************************************)
CallIdx == 1..Len(calls)

Issued(ep) == \E i \in CallIdx : calls[i].endpoint = ep

CountCalls(ep) == Cardinality({i \in CallIdx : calls[i].endpoint = ep})

\* a call of endpoint ep returned with success before the i-th call was issued
OkBefore(ep, i) ==
    \E j \in 1..(i - 1) : calls[j].endpoint = ep /\ calls[j].outcome = "ok"

Printed(m) == \E i \in 1..Len(printed) : printed[i].msg = m

PrintedWith(m, v) == \E i \in 1..Len(printed) : printed[i].msg = m /\ printed[i].val = v

Arrived == response.kind # "none"

HttpFailure == response.kind = "http" /\ response.status # 200

\* main() ran to its last line
RunSucceeded == pc = "exited" /\ ~interrupted /\ web_url # None

(***************************************************************************)
(* C1: when a hard-stop step fails (no PDF, no share link, no imported     *)
(* media, no CMS entry, the template cannot be loaded, campaign creation   *)
(* raises, content upload raises) the run ends at once with exit code 1,   *)
(* and once the process has ended no request is issued any more.           *)
(***************************************************************************)
HardStopFails ==
    /\ Arrived
    /\ \/ /\ pc = "step1"
          /\ response.kind = "http"
          /\ \/ response.status # 200
             \/ \A i \in 1..Len(response.body) :
                   ~EndsWith(response.body[i].name, <<"_Web.pdf">>)
       \/ pc = "step2" /\ response.kind = "http" /\ response.status \notin {200, 409}
       \/ pc = "step2b" /\ response.kind = "http"
             /\ (response.status # 200 \/ response.body = <<>>)
       \/ pc = "step4" /\ HttpFailure
       \/ pc = "step5" /\ HttpFailure
       \/ pc = "step5" /\ response.kind = "http" /\ response.status = 200
             /\ template_file = None
       \/ pc = "step7" /\ (response.kind = "exc" \/ HttpFailure)
       \/ pc = "step8" /\ (response.kind = "exc" \/ HttpFailure)

C1_HardStopHalts ==
    [][/\ (HardStopFails /\ ~interrupted') =>
              (pc' = "exited" /\ exitCode' = <<1>> /\ Len(calls') = Len(calls))
       /\ pc = "exited" => (pc' = "exited" /\ calls' = calls /\ inflight' = inflight)]_vars

C1_Witness ==
    /\ pc = "exited"
    /\ exitCode = <<1>>
    /\ Printed("wix_failed")
    /\ calls[Len(calls)].endpoint = "import"
    /\ calls[Len(calls)].outcome = "fail"

(***************************************************************************)
(* C2: the requests form a strict sequence: a request is issued only when  *)
(* every earlier one has returned, at most one request is outstanding, and *)
(* share link, media import, CMS entry, campaign creation and content      *)
(* upload are each requested only after the step before them succeeded.    *)
(***************************************************************************)
C2_StrictSequence ==
    /\ Cardinality(inflight) <= 1
    /\ \A i \in CallIdx : i < Len(calls) => calls[i].outcome # "pending"
    /\ \A i \in CallIdx :
          /\ calls[i].endpoint = "create_shared_link" =>
                OkBefore("list_folder", i) /\ pdf_info # <<>>
          /\ calls[i].endpoint = "import" =>
                /\ OkBefore("create_shared_link", i) \/ OkBefore("list_shared_links", i)
                /\ ~Falsy(share_link)
          /\ calls[i].endpoint = "create_item" =>
                OkBefore("import", i) /\ wix_result # <<>>
          /\ calls[i].endpoint = "create_campaign" =>
                OkBefore("create_item", i) /\ ~Falsy(cms_id) /\ ~Falsy(customized_html)
          /\ calls[i].endpoint = "set_content" =>
                OkBefore("create_campaign", i) /\ ~Falsy(campaign_id)

C2_Witness ==
    /\ pc = "step8"
    /\ Cardinality(inflight) = 1
    /\ Issued("set_content")
    /\ Issued("list_shared_links")

(***************************************************************************)
(* C3: a run that succeeds has created exactly one campaign, has uploaded  *)
(* content exactly once and to the id its own campaign creation returned,  *)
(* and has printed an edit URL containing the web id that the retrieval of *)
(* that campaign returned.                                                 *)
(***************************************************************************)
C3_SuccessfulRun ==
    RunSucceeded =>
        /\ CountCalls("create_campaign") = 1
        /\ Cardinality(ext.campaigns) = 1
        /\ CountCalls("set_content") = 1
        /\ \A i \in CallIdx : calls[i].endpoint = "set_content" =>
              /\ calls[i].arg[1].id = campaign_id
              /\ calls[i].outcome = "ok"
        /\ \A c \in ext.campaigns :
              /\ c.id = campaign_id
              /\ \E i \in 1..Len(printed) :
                    /\ printed[i].msg = "edit_url"
                    /\ Contains(printed[i].val, c.web_id)
                    /\ printed[i].val = web_url

C3_Witness ==
    /\ RunSucceeded
    /\ month_name = <<"March">>
    /\ \E c \in ext.campaigns : c.id = <<"c2">> /\ c.web_id = <<"101">>

(***************************************************************************)
(* C4: whatever the run does, a campaign it created stays a draft: the     *)
(* only requests ever made about a campaign create it, upload its content  *)
(* or read it; none sends or schedules it.                                 *)
(***************************************************************************)
CampaignEndpoints == {"create_campaign", "set_content", "get_campaign"}

OtherEndpoints ==
    {"list_folder", "create_shared_link", "list_shared_links", "download", "import",
     "create_item"}

C4_StaysDraft ==
    /\ \A c \in ext.campaigns : c.status = "save"
    /\ \A i \in CallIdx : calls[i].endpoint \in CampaignEndpoints \cup OtherEndpoints

C4_Witness ==
    /\ pc = "exited"
    /\ \E c \in ext.campaigns : c.html # None /\ c.status = "save"

(***************************************************************************)
(* C5: the exit code is 0 exactly when main() ran to its end or the        *)
(* operator interrupted it, and 1 otherwise: a missing configuration       *)
(* value, an empty month typed at the prompt, a failed step, an exception. *)
(***************************************************************************)
C5_ExitCodes ==
    pc = "exited" =>
        /\ exitCode \in {<<0>>, <<1>>}
        /\ exitCode = <<0>> <=> (interrupted \/ RunSucceeded)
        /\ (\E n \in NameSet : env[n] # <<"set">>) => exitCode = <<1>>
        /\ (argv = None /\ typed # None /\ Strip(typed) = <<>>) =>
              (exitCode = <<1>> /\ calls = <<>>)
        /\ (calls # <<>> /\ calls[Len(calls)].outcome = "fail") => exitCode = <<1>>

C5_Witness ==
    /\ pc = "exited"
    /\ exitCode = <<1>>
    /\ Printed("unexpected_error")
    /\ calls[Len(calls)].endpoint = "download"

(***************************************************************************)
(* C6: with one of the five required values missing or empty the process   *)
(* never gets past the configuration check: it makes no request, and it    *)
(* ends with exit code 1 after one message naming a value that is missing. *)
(***************************************************************************)
C6_ConfigValidated ==
    (\E n \in NameSet : env[n] # <<"set">>) =>
        /\ pc \in {"config", "exited"}
        /\ calls = <<>>
        /\ inflight = {}
        /\ month_name = None
        /\ pc = "exited" =>
              /\ exitCode = <<1>>
              /\ Len(printed) = 1
              /\ printed[1].msg = "config_error"
              /\ \E n \in NameSet : printed[1].val = <<n>> /\ env[n] # <<"set">>

C6_Witness ==
    /\ pc = "exited"
    /\ env["DROPBOX_ACCESS_TOKEN"] = <<>>
    /\ \A n \in NameSet \ {"DROPBOX_ACCESS_TOKEN"} : env[n] = <<"set">>
    /\ PrintedWith("config_error", <<"DROPBOX_ACCESS_TOKEN">>)

(***************************************************************************)
(* C7: when the content upload fails after the campaign was created, the   *)
(* run ends with exit code 1, the failed upload is its last request (no    *)
(* compensating request), the campaign, the CMS entry and the imported     *)
(* media are still there, and the campaign's id was printed.               *)
(***************************************************************************)
UploadFailed ==
    \E i \in CallIdx : calls[i].endpoint = "set_content" /\ calls[i].outcome = "fail"

C7_DanglingCampaign ==
    UploadFailed =>
        /\ pc = "exited"
        /\ exitCode = <<1>>
        /\ calls[Len(calls)].endpoint = "set_content"
        /\ inflight = {}
        /\ \E c \in ext.campaigns : c.id = campaign_id /\ c.status = "save"
        /\ \E it \in ext.items : it.id = cms_id
        /\ \E m \in ext.media : m.id = wix_result[1].fileId
        /\ PrintedWith("campaign_id", campaign_id)
        /\ Printed("content_error")

C7_Witness ==
    /\ UploadFailed
    /\ pc = "exited"
    /\ \E c \in ext.campaigns : c.id = campaign_id /\ c.html = None

(***************************************************************************)
(* C8: a call that returned a failure (a non-success status or an          *)
(* exception) is never issued again in the same run.                       *)
(***************************************************************************)
C8_NoRetry ==
    \A i \in CallIdx : \A j \in CallIdx :
        (i < j /\ calls[i].endpoint = calls[j].endpoint /\ calls[i].arg = calls[j].arg)
            => calls[i].outcome = "ok"

C8_Witness ==
    /\ pc = "step4"
    /\ \E i \in CallIdx : \E j \in CallIdx :
          /\ i < j
          /\ calls[i].endpoint = "list_folder"
          /\ calls[j].endpoint = "list_folder"
          /\ calls[j].outcome = "fail"
    /\ \E i \in CallIdx : calls[i].endpoint = "create_shared_link" /\ calls[i].outcome = "fail"

(***************************************************************************)
(* C9: an interrupt during main() ends the process at once with exit code  *)
(* 0; from the interrupt on no request is issued and nothing the providers *)
(* hold is changed (imported media, CMS entry and campaign all remain).    *)
(***************************************************************************)
C9_InterruptAborts ==
    /\ [](interrupted => (pc = "exited" /\ exitCode = <<0>>))
    /\ [][interrupted' => (calls' = calls /\ ext' = ext)]_vars

C9_Witness ==
    /\ interrupted
    /\ exitCode = <<0>>
    /\ ext.media # {}
    /\ ext.items # {}
    /\ \E c \in ext.campaigns : c.html = None
    /\ calls[Len(calls)].outcome = "pending"

(***************************************************************************)
(* C10 (as claimed): summary extraction never ends the run: a run that was *)
(* not interrupted never ends in step 3, and whenever the listing for the  *)
(* auxiliary document or its download did not give a usable document the   *)
(* summary is the fallback sentence.                                       *)
(***************************************************************************)
\* the request the process last issued belongs to step 3
InStep3 ==
    /\ calls # <<>>
    /\ \/ calls[Len(calls)].endpoint = "download"
       \/ calls[Len(calls)].endpoint = "list_folder" /\ Len(calls) > 1

\* the index of the last request of step 3
LastStep3Call ==
    CHOOSE i \in CallIdx :
        /\ calls[i].endpoint \in {"list_folder", "download"}
        /\ \A j \in CallIdx : calls[j].endpoint \in {"list_folder", "download"} => j <= i

SummaryIsFallbackAfterFailure ==
    (~Falsy(meeting_summary) /\ calls[LastStep3Call].outcome = "fail")
        => meeting_summary = Fallback

C10_NeverHalts ==
    /\ (pc = "exited" /\ ~interrupted) => ~InStep3
    /\ SummaryIsFallbackAfterFailure

(***************************************************************************)
(* C10 (amended): an answer of the provider in step 3 never ends the run:  *)
(* when the listing returns an error status or no matching document, when  *)
(* the download returns an error status or no bytes, or when the bytes are *)
(* no document or hold no text in the first paragraphs, the summary is the *)
(* fallback sentence, the media import is requested next, and the CMS      *)
(* entry is submitted with the summary of step 3.  Only an exception       *)
(* raised by the listing or the download call itself ends the run, with    *)
(* exit code 1.                                                            *)
(***************************************************************************)
NoUsableDocument ==
    /\ Arrived
    /\ response.kind = "http"
    /\ \/ /\ pc = "step3"
          /\ \/ response.status # 200
             \/ \A i \in 1..Len(response.body) :
                   ~(/\ Contains(Lower(response.body[i].name), <<"ted">>)
                     /\ EndsWith(response.body[i].name, <<".docx">>))
       \/ /\ pc = "step3b"
          /\ \/ response.status # 200
             \/ ~response.body[1].nonempty
             \/ ~response.body[1].valid
             \/ \A i \in 1..Len(response.body[1].paragraphs) :
                   Strip(response.body[1].paragraphs[i]) = <<>>

SubmittedSummary(i) ==
    LET fields == calls[i].arg
        at == CHOOSE k \in 1..Len(fields) : fields[k].key = "newsletterSummary"
    IN  fields[at].value

C10_FallbackUnlessException ==
    /\ [][/\ (pc \in {"step3", "step3b"} /\ Arrived /\ response.kind = "http"
                 /\ ~interrupted') => pc' \in {"step3b", "step4"}
          /\ (NoUsableDocument /\ ~interrupted') =>
                 /\ pc' = "step4"
                 /\ meeting_summary' = Fallback
                 /\ calls'[Len(calls')].endpoint = "import"
          /\ (pc \in {"step3", "step3b"} /\ response.kind = "exc" /\ ~interrupted') =>
                 (pc' = "exited" /\ exitCode' = <<1>>)]_vars
    /\ [](\A i \in CallIdx : calls[i].endpoint = "create_item" =>
              (~Falsy(meeting_summary) /\ SubmittedSummary(i) = meeting_summary))

C10_Witness ==
    /\ pc = "step5"
    /\ meeting_summary = Fallback
    /\ \E i \in CallIdx : calls[i].endpoint = "download" /\ calls[i].outcome = "fail"
    /\ \E i \in CallIdx : calls[i].endpoint = "create_item" /\ SubmittedSummary(i) = Fallback

(***************************************************************************)
(* The script run as a whole, or one of its functions applied on its own   *)
(***************************************************************************)
AllSpec == (Init \/ UnitInit) /\ [][Next \/ UnitNext]_vars

ShareLog == IF unit.fn = "share" THEN unit.log ELSE <<>>

\* the invocation was answered conflict and then given the links kept
ConflictWithLinks(inv) ==
    /\ inv.create.kind = "http" /\ inv.create.status = 409
    /\ inv.list.kind = "http" /\ inv.list.status = 200
    /\ inv.list.body # <<>>

(***************************************************************************)
(* C11: against a provider that keeps the links it issued, an invocation   *)
(* answered conflict returns the existing link instead of failing, and the *)
(* invocation after one that returned a link returns the same URL.         *)
(***************************************************************************)
C11_ShareLinkIdempotent ==
    /\ \A i \in 1..Len(ShareLog) :
          ConflictWithLinks(ShareLog[i]) =>
              (~ShareLog[i].raised /\ ~Falsy(ShareLog[i].returned))
    /\ \A i \in 1..(Len(ShareLog) - 1) :
          (~Falsy(ShareLog[i].returned) /\ ConflictWithLinks(ShareLog[i + 1])) =>
              ShareLog[i + 1].returned = ShareLog[i].returned

C11_Witness ==
    /\ Len(ShareLog) = 2
    /\ ShareLog[1].create.status = 200
    /\ ShareLog[2].create.status = 409
    /\ ~Falsy(ShareLog[1].returned)
    /\ ShareLog[2].returned = ShareLog[1].returned

(***************************************************************************)
(* C12: after a conflict the first link listed is the one used, and it is  *)
(* normalised exactly like a link just created: dl=0 becomes dl=1 and the  *)
(* host www.dropbox.com becomes dl.dropboxusercontent.com.                 *)
(***************************************************************************)
NormalTok(t) ==
    IF t = "dl=0" THEN "dl=1"
    ELSE IF t = "www.dropbox.com" THEN "dl.dropboxusercontent.com"
    ELSE t

Normalised(url) == [i \in 1..Len(url) |-> NormalTok(url[i])]

ExampleShareUrl == <<"https://", "www.dropbox.com", "/s/xyz?", "dl=0">>

ExampleDirectUrl == <<"https://", "dl.dropboxusercontent.com", "/s/xyz?", "dl=1">>

C12_SameNormalisation ==
    \A i \in 1..Len(ShareLog) :
        LET inv == ShareLog[i]
        IN  /\ (inv.create.kind = "http" /\ inv.create.status = 200) =>
                  /\ inv.returned = Normalised(inv.create.body)
                  /\ inv.create.body = ExampleShareUrl => inv.returned = ExampleDirectUrl
            /\ ConflictWithLinks(inv) =>
                  /\ inv.returned = Normalised(inv.list.body[1].url)
                  /\ inv.list.body[1].url = ExampleShareUrl =>
                        inv.returned = ExampleDirectUrl

C12_Witness ==
    /\ Len(ShareLog) = 2
    /\ ShareLog[1].create.status = 200
    /\ ShareLog[1].create.body = ExampleShareUrl
    /\ ShareLog[1].returned = ExampleDirectUrl
    /\ ConflictWithLinks(ShareLog[2])
    /\ Len(ShareLog[2].list.body) = 1
    /\ ShareLog[2].returned = ExampleDirectUrl

(***************************************************************************)
(* C13: every failure of share-link issuance other than a recoverable      *)
(* conflict is reported by a status: creation answered neither 200 nor     *)
(* 409, a conflict whose listing is not answered 200, a conflict whose     *)
(* listing holds no link.  Each returns None, and in main() None ends the  *)
(* run with exit code 1.  A call that raises is not turned into None: the  *)
(* exception leaves the function and the run ends with exit code 1 in the  *)
(* handler of the __main__ guard.                                          *)
(***************************************************************************)
CreateRefused(c) == c.kind = "http" /\ c.status \notin {200, 409}

ListUnusable(l) == l.kind = "http" /\ (l.status # 200 \/ l.body = <<>>)

StatusFailure(inv) ==
    \/ CreateRefused(inv.create)
    \/ inv.create.kind = "http" /\ inv.create.status = 409 /\ ListUnusable(inv.list)

RaisedFailure(inv) ==
    \/ inv.create.kind = "exc"
    \/ inv.create.kind = "http" /\ inv.create.status = 409 /\ inv.list.kind = "exc"

\* main() has the answer that decides step 2 and acts on it
ShareStepActs == pc \in {"step2", "step2b"} /\ Arrived /\ pc' # pc /\ ~interrupted'

ShareStepStatusFailure ==
    \/ pc = "step2" /\ CreateRefused(response)
    \/ pc = "step2b" /\ ListUnusable(response)

HaltsWithoutLink ==
    /\ pc' = "exited"
    /\ exitCode' = <<1>>
    /\ share_link' = None
    /\ printed' = Append(printed, Msg("share_failed", <<>>))
    /\ calls' = Closed(calls)

\* the claim as stated: a call that raises counted among the failures
C13_AbsenceForEveryFailure ==
    /\ [](\A i \in 1..Len(ShareLog) :
            (StatusFailure(ShareLog[i]) \/ RaisedFailure(ShareLog[i])) =>
                (~ShareLog[i].raised /\ ShareLog[i].returned = None))
    /\ [][(ShareStepActs /\ (ShareStepStatusFailure \/ response.kind = "exc"))
              => HaltsWithoutLink]_vars

C13_AbsenceForStatusFailure ==
    /\ [](\A i \in 1..Len(ShareLog) :
            /\ StatusFailure(ShareLog[i]) =>
                  (~ShareLog[i].raised /\ ShareLog[i].returned = None)
            /\ RaisedFailure(ShareLog[i]) => ShareLog[i].raised)
    /\ [][/\ (ShareStepActs /\ ShareStepStatusFailure) => HaltsWithoutLink
          /\ (ShareStepActs /\ response.kind = "exc") =>
                /\ pc' = "exited"
                /\ exitCode' = <<1>>
                /\ printed' = Append(printed, Msg("unexpected_error", ErrText(response)))
         ]_vars

C13_Witness ==
    /\ pc = "exited"
    /\ exitCode = <<1>>
    /\ ~interrupted
    /\ share_link = None
    /\ CountCalls("list_shared_links") = 1
    /\ printed[Len(printed)] = Msg("share_failed", <<>>)

(***************************************************************************)
(* C14: the PDF found is the first entry whose name ends with "_Web.pdf"   *)
(* and the auxiliary document the first entry whose lower-cased name       *)
(* contains "ted" and whose name ends with ".docx"; there is none when no  *)
(* entry matches or the listing is answered with a status other than 200.  *)
(* A listing call that raises leaves the function as an exception.         *)
(***************************************************************************)
Discovered == unit.fn = "discover"

LastTok(name) == name[Len(name)]

SpelledTed(name) == \E k \in 1..Len(name) : name[k] \in {"ted", "Ted", "TED"}

WebPdfAt(entries) == {i \in 1..Len(entries) : LastTok(entries[i].name) = "_Web.pdf"}

TedDocxAt(entries) ==
    {i \in 1..Len(entries) :
        SpelledTed(entries[i].name) /\ LastTok(entries[i].name) = ".docx"}

Least(S) == CHOOSE i \in S : \A j \in S : i <= j

ExpectedPdf(entries) ==
    IF WebPdfAt(entries) = {} THEN <<>>
    ELSE <<[path |-> entries[Least(WebPdfAt(entries))].path_lower,
            filename |-> entries[Least(WebPdfAt(entries))].name]>>

ExpectedTed(entries) ==
    IF TedDocxAt(entries) = {} THEN None
    ELSE entries[Least(TedDocxAt(entries))].path_lower

ExampleListing ==
    <<Entry(UnitFolder, <<"A", "_Web.pdf">>), Entry(UnitFolder, <<"B", ".docx">>),
      Entry(UnitFolder, <<"Ted", "_Notes", ".docx">>)>>

ListedEntries ==
    IF unit.resp.kind = "http" /\ unit.resp.status = 200 THEN unit.resp.body ELSE <<>>

FirstMatches ==
    /\ unit.pdf = ExpectedPdf(ListedEntries)
    /\ unit.ted = ExpectedTed(ListedEntries)
    /\ ListedEntries = ExampleListing =>
          /\ unit.pdf # <<>> /\ unit.pdf[1].filename = <<"A", "_Web.pdf">>
          /\ unit.ted = Lower(UnitFolder \o <<"/", "Ted", "_Notes", ".docx">>)

\* the claim as stated: a listing call that raises counted as a failed listing
C14_AbsenceWheneverListingFails ==
    Discovered => (~unit.raised /\ FirstMatches)

C14_FirstMatch ==
    Discovered =>
        /\ unit.resp.kind = "http" => (~unit.raised /\ FirstMatches)
        /\ unit.resp.kind = "exc" => unit.raised

C14_Witness ==
    /\ Discovered
    /\ ListedEntries = ExampleListing
    /\ unit.pdf = <<[path |-> ExampleListing[1].path_lower, filename |-> <<"A", "_Web.pdf">>]>>
    /\ unit.ted = ExampleListing[3].path_lower

(***************************************************************************)
(* C15: from a list of paragraphs (each read without its surrounding white *)
(* space) the summary is the first of the first 10 that is non-empty and   *)
(* contains "meeting", "speaker" or "program" in any case; failing that    *)
(* the first non-empty one of the first 5; failing that the fallback       *)
(* sentence.  A paragraph past the tenth is never the reason for a result. *)
(***************************************************************************)
Extracted == unit.fn = "extract"

KeywordToks ==
    {"meeting", "Meeting", "speaker", "Speaker", "SPEAKER", "program", "Program"}

Text(ps, i) == Strip(ps[i])

Among(ps, n) == {i \in 1..Len(ps) : i <= n}

KeywordAt(ps) ==
    {i \in Among(ps, 10) :
        Text(ps, i) # <<>> /\ \E k \in 1..Len(Text(ps, i)) : Text(ps, i)[k] \in KeywordToks}

NonEmptyAt(ps) == {i \in Among(ps, 5) : Text(ps, i) # <<>>}

ExpectedSummary(ps) ==
    IF KeywordAt(ps) # {} THEN Text(ps, Least(KeywordAt(ps)))
    ELSE IF NonEmptyAt(ps) # {} THEN Text(ps, Least(NonEmptyAt(ps)))
    ELSE Fallback

ExampleWithKeyword == <<<<"Hello">>, <<>>, <<"Meeting", " at 7pm Thursday">>>>

ExampleWithoutKeyword == <<<<"Hello">>, <<"Nothing relevant">>>>

C15_SummaryPolicy ==
    (Extracted /\ unit.bytes.valid) =>
        LET ps == unit.bytes.paragraphs
        IN  /\ unit.result = ExpectedSummary(ps)
            /\ ps = ExampleWithKeyword => unit.result = <<"Meeting", " at 7pm Thursday">>
            /\ ps = ExampleWithoutKeyword => unit.result = <<"Hello">>
            /\ ps = <<>> => unit.result = Fallback
            /\ (\A i \in Among(ps, 10) : Text(ps, i) = <<>>) => unit.result = Fallback

\* a keyword in the tenth paragraph wins over the non-empty paragraphs before
\* it, and the eleventh paragraph, with a keyword too, is left out
C15_Witness ==
    /\ Extracted
    /\ unit.bytes.valid
    /\ Len(unit.bytes.paragraphs) = 11
    /\ KeywordAt(unit.bytes.paragraphs) = {10}
    /\ NonEmptyAt(unit.bytes.paragraphs) = 1..5
    /\ unit.bytes.paragraphs[11] = <<"Our ", "SPEAKER">>
    /\ unit.result = <<"Meeting", " at 7pm Thursday">>

(***************************************************************************)
(* C16: substituting the two placeholders a second time, with the same     *)
(* month and link, changes nothing, provided the month and the link hold   *)
(* no brace and the template holds braces only around the names of the     *)
(* two placeholders.                                                       *)
(***************************************************************************)
Customized == unit.fn = "customize"

BraceFree(text) == \A i \in 1..Len(text) : text[i] \notin {"{{", "}}"}

IsPlaceholderAt(t, i) ==
    /\ i >= 1 /\ i + 2 <= Len(t)
    /\ t[i] = "{{" /\ t[i + 1] \in {"MONTH", "WIX_LINK"} /\ t[i + 2] = "}}"

WellFormedTemplate(t) ==
    \A i \in 1..Len(t) :
        /\ t[i] = "{{" => IsPlaceholderAt(t, i)
        /\ t[i] = "}}" => IsPlaceholderAt(t, i - 2)

AnsweredHttpError ==
    /\ Arrived
    /\ response.kind = "http"
    /\ response.status # 200
    /\ ~(pc = "step2" /\ response.status = 409)

\* main() takes the answer and goes on from it
MainActsOnAnswer == Arrived /\ pc' # pc /\ ~interrupted'

ReportsStatusAndBody ==
    \E i \in (Len(printed) + 1)..Len(printed') :
        /\ Contains(printed'[i].val, <<ToString(response.status)>>)
        /\ Contains(printed'[i].val, response.text)

C17_ReportsStatusAndBody ==
    [][(AnsweredHttpError /\ MainActsOnAnswer) =>
          (pc' = "exited" /\ exitCode' = <<1>> /\ ReportsStatusAndBody)]_vars

(***************************************************************************)
(* C18: the record submitted for a CMS entry holds the title, the document *)
(* reference and the summary; it holds publishMonth exactly when a publish *)
(* date was given, with that date formatted and never a default; main()    *)
(* gives no publish date, so its record never holds publishMonth.          *)
(***************************************************************************)
HasField(fields, k) == \E i \in 1..Len(fields) : fields[i].key = k

Field(fields, k) == fields[CHOOSE i \in 1..Len(fields) : fields[i].key = k].value

DateSupplied(d) == d # None /\ d # <<>>

UnitRecordAsClaimed ==
    (unit.fn = "cms" /\ ~unit.raised) =>
        /\ HasField(unit.data, "title") /\ Field(unit.data, "title") = unit.title
        /\ HasField(unit.data, "newsletter") /\ Field(unit.data, "newsletter") = unit.ref
        /\ HasField(unit.data, "newsletterSummary")
        /\ Field(unit.data, "newsletterSummary") = unit.summary
        /\ HasField(unit.data, "publishMonth") <=> DateSupplied(unit.publish_date)
        /\ HasField(unit.data, "publishMonth") =>
              Field(unit.data, "publishMonth")
                  \in {<<"Nov", " ", "18", ", ", "2025">>, <<"Mar", " ", "05", ", ", "2026">>}
        /\ unit.publish_date = <<"2025", "-", "11", "-", "18", "T", "10:00:00", "Z">> =>
              Field(unit.data, "publishMonth") = <<"Nov", " ", "18", ", ", "2025">>

MainRecordAsClaimed ==
    \A i \in CallIdx :
        calls[i].endpoint = "create_item" =>
            /\ ~HasField(calls[i].arg, "publishMonth")
            /\ Len(calls[i].arg) = 3
            /\ Field(calls[i].arg, "title") = month_name \o <<" ">> \o Year
            /\ Field(calls[i].arg, "newsletter") = wix_result[1].wixDocRef
            /\ Field(calls[i].arg, "newsletterSummary") = meeting_summary

C18_DateFieldOnlyWhenSupplied == UnitRecordAsClaimed /\ MainRecordAsClaimed

C18_Witness ==
    /\ unit.fn = "cms"
    /\ unit.publish_date = <<"2025", "-", "11", "-", "18", "T", "10:00:00", "Z">>
    /\ ~unit.raised
    /\ Len(unit.data) = 4
    /\ Field(unit.data, "publishMonth") = <<"Nov", " ", "18", ", ", "2025">>

(***************************************************************************)
(* C19: a media import answered 200 gives the record with the provider's   *)
(* media id, the provider's URL with "https://<site-id>.usrfiles.com/ugd/" *)
(* replaced by "https://www.dmlsclub.com/_files/ugd/" (unchanged without   *)
(* that prefix) and the reference "wix:document://v1/ugd/<id>/<name>"; an  *)
(* import answered with another status gives None and ends the run; the    *)
(* import is never asked for twice; the link put in the template is the    *)
(* rewritten URL, not the share link.  An import call that raises ends the *)
(* run in the handler of the __main__ guard instead of giving None.        *)
(***************************************************************************)
ImportActs == pc = "step4" /\ Arrived /\ pc' # pc /\ ~interrupted'

ImportSucceeded == response.kind = "http" /\ response.status = 200

HasSitePrefix(u) ==
    /\ Len(u) >= 3
    /\ u[1] = "https://"
    /\ <<u[2]>> = getenv(env, "WIX_SITE_ID")
    /\ u[3] = ".usrfiles.com/ugd/"

VanityUrl(u) ==
    IF HasSitePrefix(u)
    THEN <<"https://", "www.dmlsclub.com/_files/ugd/">> \o SubSeq(u, 4, Len(u))
    ELSE u

ImportRecordAsClaimed ==
    /\ pc' = "step5"
    /\ wix_result' # <<>>
    /\ wix_result'[1].fileId = response.body[1].id
    /\ wix_result'[1].url = VanityUrl(response.body[1].url)
    /\ wix_result'[1].wixDocRef =
           <<"wix:document://v1/ugd/">> \o response.body[1].id \o <<"/">>
               \o pdf_info[1].filename

ImportYieldsAbsence ==
    /\ wix_result' = <<>>
    /\ pc' = "exited"
    /\ exitCode' = <<1>>
    /\ printed' = Append(printed, Msg("wix_failed", <<>>))

TemplateLinkIsVanityUrl ==
    customized_html # None =>
        /\ customized_html = Customize(template_file, month_name, wix_result[1].url)
        /\ Contains(customized_html, wix_result[1].url)
        /\ ~Contains(customized_html, share_link)
        /\ wix_result[1].url # share_link

\* the claim as stated: an import call that raises counted as a failure
C19_AbsenceOnEveryFailure ==
    /\ [][ImportActs => IF ImportSucceeded THEN ImportRecordAsClaimed
                                           ELSE ImportYieldsAbsence]_vars
    /\ [](CountCalls("import") <= 1 /\ TemplateLinkIsVanityUrl)

C19_MediaImport ==
    /\ [][ImportActs =>
             /\ ImportSucceeded => ImportRecordAsClaimed
             /\ (response.kind = "http" /\ response.status # 200) => ImportYieldsAbsence
             /\ response.kind = "exc" =>
                   /\ wix_result' = <<>>
                   /\ pc' = "exited"
                   /\ exitCode' = <<1>>
                   /\ printed' = Append(printed, Msg("unexpected_error", ErrText(response)))
         ]_vars
    /\ [](CountCalls("import") <= 1 /\ TemplateLinkIsVanityUrl)

C19_Witness ==
    /\ customized_html # None
    /\ wix_result # <<>>
    /\ SubSeq(wix_result[1].url, 1, 2) = <<"https://", "www.dmlsclub.com/_files/ugd/">>
    /\ Contains(customized_html, wix_result[1].url)
    /\ CountCalls("import") = 1

(***************************************************************************)
(* C20: in every state of every run each request that changes something at *)
(* a provider has been made at most once, and the numbers of things done   *)
(* form a chain: content uploads <= campaigns created <= CMS entries       *)
(* created <= media imports <= share links obtained <= PDFs found <= 1,    *)
(* counted at the providers and counted by the answers the run received;   *)
(* a campaign is only asked for after a CMS entry was created.             *)
(***************************************************************************)
MutatingEndpoints ==
    {"create_shared_link", "import", "create_item", "create_campaign", "set_content"}

OkCalls(ep) ==
    Cardinality({i \in CallIdx : calls[i].endpoint = ep /\ calls[i].outcome = "ok"})

PdfsFound == IF pdf_info # <<>> THEN 1 ELSE 0

ShareLinksObtained == IF share_link # None THEN 1 ELSE 0

Uploaded == {c \in ext.campaigns : c.html # None}

C20_CountsFormChain ==
    /\ \A ep \in MutatingEndpoints : CountCalls(ep) <= 1
    /\ Cardinality(Uploaded) <= Cardinality(ext.campaigns)
    /\ Cardinality(ext.campaigns) <= Cardinality(ext.items)
    /\ Cardinality(ext.items) <= Cardinality(ext.media)
    /\ Cardinality(ext.media) <= ShareLinksObtained
    /\ OkCalls("set_content") <= OkCalls("create_campaign")
    /\ OkCalls("create_campaign") <= OkCalls("create_item")
    /\ OkCalls("create_item") <= OkCalls("import")
    /\ OkCalls("import") <= ShareLinksObtained
    /\ ShareLinksObtained <= PdfsFound
    /\ PdfsFound <= 1
    /\ \A i \in CallIdx :
          calls[i].endpoint = "create_campaign" =>
              (OkBefore("create_item", i) /\ ext.items # {})

\* a campaign left without content: every count is 1 but the uploads
C20_Witness ==
    /\ pc = "exited"
    /\ Cardinality(Uploaded) = 0
    /\ CountCalls("set_content") = 1
    /\ Cardinality(ext.campaigns) = 1
    /\ Cardinality(ext.items) = 1
    /\ Cardinality(ext.media) = 1
    /\ ShareLinksObtained = 1
    /\ PdfsFound = 1

(***************************************************************************)
(* C21: when the eight steps succeeded and the retrieval of the campaign   *)
(* for the edit URL fails, the run ends with exit code 1 after the success *)
(* banner was printed, prints no edit URL, and leaves the CMS entry and    *)
(* the campaign with its uploaded content as they were.                    *)
(***************************************************************************)
RetrievalFailed ==
    \E i \in CallIdx : calls[i].endpoint = "get_campaign" /\ calls[i].outcome = "fail"

BannerBeforeError ==
    \E i \in 1..Len(printed) : \E j \in 1..Len(printed) :
        /\ i < j
        /\ printed[i].msg = "success_banner"
        /\ printed[j].msg = "unexpected_error"

LeftInPlace ==
    /\ \E it \in ext.items : it.id = cms_id
    /\ \E c \in ext.campaigns :
          c.id = campaign_id /\ c.html = customized_html /\ c.status = "save"

C21_RetrievalFailsAfterBanner ==
    /\ [](RetrievalFailed =>
            /\ pc = "exited"
            /\ exitCode = <<1>>
            /\ calls[Len(calls)].endpoint = "get_campaign"
            /\ ShareLinksObtained = 1
            /\ \A ep \in MutatingEndpoints \ {"create_shared_link"} : OkCalls(ep) = 1
            /\ BannerBeforeError
            /\ ~Printed("edit_url")
            /\ web_url = None
            /\ LeftInPlace)
    /\ [][pc = "summary" => (ext' = ext /\ (~interrupted' => LeftInPlace'))]_vars

C21_Witness ==
    /\ RetrievalFailed
    /\ exitCode = <<1>>
    /\ Printed("success_banner")
    /\ ~Printed("edit_url")
    /\ LeftInPlace

(***************************************************************************)
(* C22: the summary main() hands to the creation of the CMS entry is never *)
(* None and never empty: whatever the listing, the download and the        *)
(* extraction come to, it is the fallback sentence or a non-empty          *)
(* paragraph of the downloaded document without its surrounding white      *)
(* space.                                                                  *)
(***************************************************************************)
\* text is paragraph p with the white space at its two ends taken away
IsStrippedFrom(text, p) ==
    /\ text # <<>>
    /\ ~IsSpace(text[1])
    /\ ~IsSpace(text[Len(text)])
    /\ \E i \in 1..Len(p) : \E j \in i..Len(p) :
          /\ SubSeq(p, i, j) = text
          /\ \A m \in 1..Len(p) : (m < i \/ m > j) => IsSpace(p[m])

IsParagraphOf(text, bytes) ==
    /\ bytes.valid
    /\ \E k \in 1..Len(bytes.paragraphs) : IsStrippedFrom(text, bytes.paragraphs[k])

SummaryDecided == pc \in {"step3", "step3b"} /\ Arrived /\ pc' = "step4"

SummaryFromDocument ==
    \/ meeting_summary' = Fallback
    \/ /\ pc = "step3b"
       /\ response.kind = "http" /\ response.status = 200
       /\ IsParagraphOf(meeting_summary', response.body[1])

C22_SummaryNeverEmpty ==
    /\ [](/\ \A i \in CallIdx :
                calls[i].endpoint = "create_item" =>
                    /\ SubmittedSummary(i) = meeting_summary
                    /\ SubmittedSummary(i) # None
                    /\ SubmittedSummary(i) # <<>>
          /\ Extracted =>
                /\ unit.result # None
                /\ unit.result # <<>>
                /\ unit.result = Fallback \/ IsParagraphOf(unit.result, unit.bytes))
    /\ [][SummaryDecided => SummaryFromDocument]_vars

C22_Witness ==
    \E i \in CallIdx :
        /\ calls[i].endpoint = "create_item"
        /\ SubmittedSummary(i) = <<"Meeting", " at 7pm">>
        /\ SubmittedSummary(i) = meeting_summary
====
